---- MODULE Spec2Model ----
(***************************************************************************)
(* A model of askmyemail.py: the local email store (emails.json), the      *)
(* filter over saved emails, the digest/summarization step and main().     *)
(*                                                                         *)
(* Text is a sequence of code points (Python str).  A Date header is a     *)
(* sequence of lexemes, each one code point: dateutil's lexer is not       *)
(* modelled character by character, only what the parser extracts from a   *)
(* header (a wall-clock time, an optional UTC offset) or that it raises.   *)
(***************************************************************************)
EXTENDS Integers, Sequences, FiniteSets, TLC

VARIABLES
    file,          \* emails.json on disk: [exists, ok, data]
    out,           \* summary.md on disk: <<>> when absent, <<text>> otherwise
    pc,            \* position of the running code
    ret,           \* where save_emails_to_json returns to
    args,          \* argparse namespace of the current run of main()
    emails,        \* argument of save_emails_to_json / local of main()
    old_data,      \* local of save_emails_to_json
    new_emails,    \* local of save_emails_to_json
    combined,      \* local of save_emails_to_json
    filtered,      \* local of main() / argument of summarize_emails_with_gemini
    bullet_lines,  \* local of summarize_emails_with_gemini
    digest,        \* local of summarize_emails_with_gemini
    summary,       \* local of main(): <<>> while unbound, <<text>> once assigned
    added,         \* the count printed by "Saved N new emails" (0 on the early returns)
    outcome,       \* how the last operation ended: "none", "ok", "error", "crash"
    prior,         \* history: emails.json when the current operation started
    op,            \* history: the operation that is running or ran last
    lastBatch,     \* history: <<>> or <<batch of the latest save call>>
    repeat,        \* history: the latest save call got the batch of the call before it
    resp,          \* history: what the summarizer answered in the current run
    hist,          \* history: batches of the direct save calls made so far
    invoked,       \* history: the summarizer was invoked in the current run
    fRecs, fSince, fFrom, fSubj,  \* inputs of filter_emails
    fOut, fSF, fFS                \* results of filter_emails: <<>> pending, <<list>> once computed

runVars    == <<out, args, filtered, bullet_lines, digest, summary, invoked, resp>>
filterVars == <<fRecs, fSince, fFrom, fSubj, fOut, fSF, fFS>>
vars == <<file, out, pc, ret, args, emails, old_data, new_emails, combined,
          filtered, bullet_lines, digest, summary, added, outcome, prior, op,
          lastBatch, repeat, resp, hist, invoked, fRecs, fSince, fFrom, fSubj, fOut, fSF, fFS>>

----------------------------------------------------------------------------
(* Bounds of the model *)

MaxBatch == 2      \* longest batch a fetch returns in a run of main()
MaxPair == 3       \* longest batch handed to a direct save call
MaxRecs == 3       \* longest list handed to filter_emails
MaxExtra == 2      \* how far a list handed to the summarizer exceeds the record cap

(* Program constants *)

DateWidth == 25
FromWidth == 60
SubjectWidth == 140
MaxDigestRecords == 50
MaxDigestChars == 8000

----------------------------------------------------------------------------
(* Python values *)

None == <<>>
Some(x) == <<x>>

\* Python truthiness of an optional str: None and "" are falsy
Truthy(o) == o /= None /\ o[1] /= <<>>

\* s[:n]
Take(s, n) == IF Len(s) <= n THEN s ELSE SubSeq(s, 1, n)

\* dict.get(key, default)
Get(e, key, default) == IF key \in DOMAIN e THEN e[key] ELSE default

\* str.lower(), on the ASCII letters
LowerChar(c) == IF c \in 65..90 THEN c + 32 ELSE c
Lower(s) == [i \in 1..Len(s) |-> LowerChar(s[i])]

\* sub in s
Contains(s, sub) ==
    \E i \in 0..(Len(s) - Len(sub)) :
        \A j \in 1..Len(sub) : s[i + j] = sub[j]

IsWhite(c) == c \in {9, 10, 11, 12, 13, 32}

\* str.strip()
Strip(s) ==
    LET idx == {i \in 1..Len(s) : ~IsWhite(s[i])}
        lo == CHOOSE i \in idx : \A j \in idx : i <= j
        hi == CHOOSE i \in idx : \A j \in idx : j <= i
    IN IF idx = {} THEN <<>> ELSE SubSeq(s, lo, hi)

IsPrefix(s, t) == Len(s) <= Len(t) /\ SubSeq(t, 1, Len(s)) = s

Ids(recs) == {recs[i].id : i \in 1..Len(recs)}

----------------------------------------------------------------------------
(* Records *)

Rec(i, d, f, s) == [id |-> i, date |-> d, from |-> f, subject |-> s]

\* Date lexemes: a wall-clock hour h is the code point 1000 + h, a UTC offset
\* of o hours is the code point 2000 + o; anything else is not part of a date.
TimeLex(h) == 1000 + h
ZoneLex(o) == 2000 + o
IsTimeLex(c) == c \in 1000..1099
IsZoneLex(c) == c \in 1988..2012

\* The records direct save calls are made with: ids 1..4, and a second record
\* that carries id 2 with another subject.
PairPool ==
    {Rec(i, <<TimeLex(i)>>, <<98>>, <<48 + i>>) : i \in 1..4}
        \cup {Rec(2, <<TimeLex(2)>>, <<98>>, <<120>>)}

Batches(pool, n) == UNION {[1..k -> pool] : k \in 0..n}

----------------------------------------------------------------------------
(* emails.json *)

Missing == [exists |-> FALSE, ok |-> FALSE, data |-> <<>>]
Stored(recs) == [exists |-> TRUE, ok |-> TRUE, data |-> recs]
\* what an interrupted write leaves: a prefix of the serialized list, which
\* json.load rejects
Partial(recs) == [exists |-> TRUE, ok |-> FALSE, data |-> recs]

\* a slip: a parse error is swallowed and the artifact is read as a list
UnparsableIgnored(f) == FALSE

\* json.load raises on the artifact
Unparsable(f) == f.exists /\ ~f.ok

\* the list json.load yields from a parsable artifact, [] when there is none
\* (save_emails_to_json line 102, load_saved_emails line 122)
Collection(f) == IF f.exists THEN f.data ELSE <<>>

\* a slip: a record counts as stored only when the whole record is stored
NewEmailsByRecord(batch, old) ==
    SelectSeq(batch, LAMBDA e : \A i \in 1..Len(old) : old[i] /= e)

\* a slip: nothing is filtered out of the batch
NewEmailsNoDedup(batch, old) == batch

\* line 104
NewEmails(batch, old) == SelectSeq(batch, LAMBDA e : e.id \notin Ids(old))

\* a slip: the new records are put in front of the stored ones
CombineNewFirst(old, new) == new \o old

\* line 109
Combine(old, new) == old \o new

\* where control goes when save_emails_to_json returns
AfterSave(r) == IF r = "main" THEN "load" ELSE "idle"
\* where control goes when an exception leaves the program's code
AfterRaise(r) == IF r = "main" THEN "aborted" ELSE "idle"

\* save_emails_to_json up to and including open(filename, "w"), which
\* truncates the artifact before anything is written
SaveEnter(batch, r) ==
    /\ ret' = r
    /\ emails' = batch
    /\ prior' = file
    /\ op' = "save"
    /\ lastBatch' = Some(batch)
    /\ repeat' = (lastBatch = Some(batch))
    /\ IF batch = <<>>
       THEN /\ pc' = AfterSave(r)
            /\ outcome' = "ok"
            /\ added' = 0
            /\ UNCHANGED <<file, old_data, new_emails, combined>>
       ELSE IF Unparsable(file)
       THEN /\ pc' = AfterRaise(r)
            /\ outcome' = "error"
            /\ added' = 0
            /\ UNCHANGED <<file, old_data, new_emails, combined>>
       ELSE LET old == Collection(file)
                new == NewEmails(batch, old)
            IN /\ old_data' = old
               /\ new_emails' = new
               /\ IF new = <<>>
                  THEN /\ pc' = AfterSave(r)
                       /\ outcome' = "ok"
                       /\ added' = 0
                       /\ UNCHANGED <<file, combined>>
                  ELSE /\ combined' = Combine(old, new)
                       /\ file' = Partial(<<>>)
                       /\ pc' = "dump"
                       /\ outcome' = "none"
                       /\ added' = 0

\* json.dump writes the next record of combined
SaveDump ==
    /\ pc = "dump"
    /\ Len(file.data) < Len(combined)
    /\ file' = Partial(Append(file.data, combined[Len(file.data) + 1]))
    /\ UNCHANGED <<out, pc, ret, args, emails, old_data, new_emails, combined,
                   filtered, bullet_lines, digest, summary, added, outcome, prior,
                   op, lastBatch, repeat, resp, hist, invoked>>
    /\ UNCHANGED filterVars

\* json.dump writes the closing bracket, the with block closes the file, and
\* line 113 prints the count
SaveClose ==
    /\ pc = "dump"
    /\ Len(file.data) = Len(combined)
    /\ file' = Stored(file.data)
    /\ added' = Len(new_emails)
    /\ outcome' = "ok"
    /\ pc' = AfterSave(ret)
    /\ UNCHANGED <<out, ret, args, emails, old_data, new_emails, combined,
                   filtered, bullet_lines, digest, summary, prior,
                   op, lastBatch, repeat, resp, hist, invoked>>
    /\ UNCHANGED filterVars

\* the write is interrupted (the process is killed, the disk fills, power is
\* lost): the run ends and the artifact keeps what had reached it
SaveCrash ==
    /\ pc = "dump"
    /\ outcome' = "crash"
    /\ pc' = AfterRaise(ret)
    /\ UNCHANGED <<file, out, ret, args, emails, old_data, new_emails, combined,
                   filtered, bullet_lines, digest, summary, added, prior,
                   op, lastBatch, repeat, resp, hist, invoked>>
    /\ UNCHANGED filterVars

\* a caller hands a batch to save_emails_to_json
DirectSave ==
    /\ pc = "idle"
    /\ Len(hist) <= 1
    /\ \E batch \in Batches(PairPool, MaxPair) :
          /\ SaveEnter(batch, "direct")
          /\ hist' = Append(hist, batch)
    /\ UNCHANGED runVars
    /\ UNCHANGED filterVars

InitCommon ==
    /\ out = None
    /\ args = [fetch |-> FALSE, summary |-> FALSE, since |-> None, from_contains |-> None,
               subject_contains |-> None]
    /\ emails = <<>> /\ old_data = <<>> /\ new_emails = <<>> /\ combined = <<>>
    /\ filtered = <<>> /\ bullet_lines = <<>> /\ digest = <<>> /\ summary = None
    /\ added = 0 /\ outcome = "none" /\ ret = "none"
    /\ op = "none" /\ lastBatch = None /\ repeat = FALSE /\ resp = None
    /\ hist = <<>> /\ invoked = FALSE
    /\ fRecs = <<>> /\ fSince = None /\ fFrom = None /\ fSubj = None
    /\ fOut = None /\ fSF = None /\ fFS = None

\* direct calls of save_emails_to_json, from no artifact or an empty list
InitStore ==
    /\ InitCommon
    /\ pc = "idle"
    /\ file \in {Missing, Stored(<<>>)}
    /\ prior = file

NextStore == DirectSave \/ SaveDump \/ SaveClose \/ SaveCrash

SpecStore == InitStore /\ [][NextStore]_vars

----------------------------------------------------------------------------
(* filter_emails *)

\* dateparser.parse: <<>> when it raises, <<[t, off]>> otherwise, off being
\* <<>> for a header without a zone and <<o>> for one with UTC offset o
ParseDate(s) ==
    IF Len(s) = 1 /\ IsTimeLex(s[1])
    THEN Some([t |-> s[1] - 1000, off |-> None])
    ELSE IF Len(s) = 2 /\ IsTimeLex(s[1]) /\ IsZoneLex(s[2])
    THEN Some([t |-> s[1] - 1000, off |-> Some(s[2] - 2000)])
    ELSE None

\* to_utc_aware, for a parsed date: the hour on the UTC clock
ToUtcAware(dt) == IF dt.off = None THEN dt.t ELSE dt.t - dt.off[1]

\* lines 144-150: <<>> when since does not parse, <<threshold>> otherwise
SinceDt(since) ==
    LET p == ParseDate(since)
    IN IF p = None THEN None ELSE Some(ToUtcAware(p[1]))

\* _to_dt
ToDt(e) ==
    LET p == ParseDate(Get(e, "date", <<>>))
    IN IF p = None THEN None ELSE Some(ToUtcAware(p[1]))

\* lines 143-158
SinceFilter(recs, since) ==
    IF Truthy(since)
    THEN LET sd == SinceDt(since[1])
         IN IF sd /= None
            THEN SelectSeq(recs, LAMBDA e : ToDt(e) /= None /\ ToDt(e)[1] >= sd[1])
            ELSE recs
    ELSE recs

\* lines 160-162
FromFilter(recs, from_contains) ==
    IF Truthy(from_contains)
    THEN SelectSeq(recs, LAMBDA e :
             Contains(Lower(Get(e, "from", <<>>)), Lower(from_contains[1])))
    ELSE recs

\* lines 164-166
SubjectFilter(recs, subject_contains) ==
    IF Truthy(subject_contains)
    THEN SelectSeq(recs, LAMBDA e :
             Contains(Lower(Get(e, "subject", <<>>)), Lower(subject_contains[1])))
    ELSE recs

\* a slip: the sender filter reads the input list, not the list filtered so far
FilterEmailsFromOnInput(recs, since, from_contains, subject_contains) ==
    SubjectFilter(
        IF Truthy(from_contains) THEN FromFilter(recs, from_contains)
        ELSE SinceFilter(recs, since),
        subject_contains)

FilterEmails(recs, since, from_contains, subject_contains) ==
    SubjectFilter(FromFilter(SinceFilter(recs, since), from_contains), subject_contains)

----------------------------------------------------------------------------
(* summarize_emails_with_gemini *)

NoMatchText ==
    <<78, 111, 32, 101, 109, 97, 105, 108, 115, 32, 109, 97, 116, 99, 104, 101,
      100, 32, 121, 111, 117, 114, 32, 102, 105, 108, 116, 101, 114, 115, 46>>
NoSummaryText ==
    <<78, 111, 32, 115, 117, 109, 109, 97, 114, 121, 32, 103, 101, 110, 101, 114,
      97, 116, 101, 100, 46>>
FailPrefix ==
    <<9888, 65039, 32, 71, 101, 109, 105, 110, 105, 32, 115, 117, 109, 109, 97,
      114, 105, 122, 97, 116, 105, 111, 110, 32, 102, 97, 105, 108, 101, 100, 58, 32>>

\* line 181
Line(e) ==
    <<45, 32>> \o Take(Get(e, "date", <<>>), DateWidth) \o <<32, 124, 32>>
        \o Take(Get(e, "from", <<>>), FromWidth) \o <<32, 124, 32>>
        \o Take(Get(e, "subject", <<>>), SubjectWidth)

\* a slip: every record is rendered, the cap on records is lost
BulletLinesUncapped(recs) == [i \in 1..Len(recs) |-> Line(recs[i])]

\* lines 180-183
BulletLines(recs) ==
    LET head == Take(recs, MaxDigestRecords)
    IN [i \in 1..Len(head) |-> Line(head[i])]

RECURSIVE Join(_)
\* "\n".join(lines)
Join(lines) ==
    IF lines = <<>> THEN <<>>
    ELSE IF Len(lines) = 1 THEN lines[1]
    ELSE lines[1] \o <<10>> \o Join(Tail(lines))

\* line 184
Digest(lines) == Take(Join(lines), MaxDigestChars)

\* what generate_content does: raise (text is str(e)), hand back nothing
\* usable (no response, or one whose text is None), or hand back a text
Responses ==
    {[kind |-> "raise", text |-> <<53, 48, 51>>],
     [kind |-> "none", text |-> <<>>],
     [kind |-> "text", text |-> <<>>],
     [kind |-> "text", text |-> <<32, 32>>],
     [kind |-> "text", text |-> <<32, 79, 75, 32>>]}

\* lines 198-202
SummaryOf(r) ==
    IF r.kind = "raise" THEN FailPrefix \o r.text
    ELSE IF r.kind = "none" \/ r.text = <<>> THEN NoSummaryText
    ELSE Strip(r.text)

\* a slip: the summary is written as it is, blank or not
WriteTextNoFallback(s) == s

\* line 256
WriteText(s) == IF s /= <<>> /\ Strip(s) /= <<>> THEN s ELSE NoSummaryText

----------------------------------------------------------------------------
(* main *)

MainPool ==
    {Rec(1, <<TimeLex(5)>>, <<98, 111, 98>>, <<72, 105>>),
     Rec(2, <<120>>, <<65, 98>>, <<120>>)}

MainArgs ==
    [fetch : BOOLEAN, summary : BOOLEAN,
     since : {None, Some(<<TimeLex(5)>>)},
     from_contains : {None, Some(<<66>>)},
     subject_contains : {None}]

\* a run of main() begins: argparse has parsed the command line
StartRun(a) ==
    /\ pc \in {"start", "done", "aborted"}
    /\ args' = a
    /\ pc' = IF a.fetch THEN "fetch" ELSE "load"
    /\ ret' = "main"
    /\ emails' = <<>> /\ old_data' = <<>> /\ new_emails' = <<>> /\ combined' = <<>>
    /\ filtered' = <<>> /\ bullet_lines' = <<>> /\ digest' = <<>> /\ summary' = None
    /\ added' = 0 /\ outcome' = "none" /\ op' = "start" /\ prior' = file
    /\ repeat' = FALSE /\ resp' = None /\ invoked' = FALSE
    /\ UNCHANGED <<file, out, lastBatch, hist>>
    /\ UNCHANGED filterVars

\* lines 222-223: get_gmail_service or the Gmail API raises
FetchFail ==
    /\ pc = "fetch"
    /\ op' = "fetch" /\ prior' = file
    /\ outcome' = "error"
    /\ pc' = "aborted"
    /\ UNCHANGED <<file, ret, emails, old_data, new_emails, combined, added,
                   lastBatch, repeat, hist>>
    /\ UNCHANGED runVars
    /\ UNCHANGED filterVars

\* lines 222-230: list_unread_emails returns a batch
FetchOk ==
    /\ pc = "fetch"
    /\ op' = "fetch" /\ prior' = file
    /\ outcome' = "ok"
    /\ \E batch \in Batches(MainPool, MaxBatch) : emails' = batch
    /\ pc' = "save"
    /\ UNCHANGED <<file, ret, old_data, new_emails, combined, added,
                   lastBatch, repeat, hist>>
    /\ UNCHANGED runVars
    /\ UNCHANGED filterVars

\* line 231
MainSave ==
    /\ pc = "save"
    /\ SaveEnter(emails, "main")
    /\ UNCHANGED hist
    /\ UNCHANGED runVars
    /\ UNCHANGED filterVars

\* lines 234-242: load_saved_emails, then filter_emails
LoadAndFilter ==
    /\ pc = "load"
    /\ op' = "load" /\ prior' = file
    /\ IF Unparsable(file)
       THEN /\ outcome' = "error"
            /\ pc' = "aborted"
            /\ UNCHANGED filtered
       ELSE /\ outcome' = "ok"
            /\ filtered' = FilterEmails(Collection(file), args.since,
                                        args.from_contains, args.subject_contains)
            /\ pc' = IF args.summary THEN "summarize" ELSE "write"
    /\ UNCHANGED <<file, out, ret, args, emails, old_data, new_emails, combined,
                   bullet_lines, digest, summary, added, lastBatch, repeat, resp,
                   hist, invoked>>
    /\ UNCHANGED filterVars

\* lines 176-197: the early return on no emails, or the digest and the prompt
Summarize ==
    /\ pc = "summarize"
    /\ op' = "summarize" /\ prior' = file
    /\ outcome' = "none"
    /\ IF filtered = <<>>
       THEN /\ summary' = Some(NoMatchText)
            /\ pc' = "write"
            /\ UNCHANGED <<bullet_lines, digest, invoked>>
       ELSE /\ bullet_lines' = BulletLines(filtered)
            /\ digest' = Digest(BulletLines(filtered))
            /\ invoked' = TRUE
            /\ pc' = "gemini"
            /\ UNCHANGED summary
    /\ UNCHANGED <<file, out, ret, args, emails, old_data, new_emails, combined,
                   filtered, added, lastBatch, repeat, resp, hist>>
    /\ UNCHANGED filterVars

\* lines 198-202: generate_content answers
Gemini ==
    /\ pc = "gemini"
    /\ \E r \in Responses :
          /\ resp' = Some(r)
          /\ summary' = Some(SummaryOf(r))
    /\ pc' = "write"
    /\ UNCHANGED <<file, out, ret, args, emails, old_data, new_emails, combined,
                   filtered, bullet_lines, digest, added, outcome, prior, op,
                   lastBatch, repeat, hist, invoked>>
    /\ UNCHANGED filterVars

\* lines 252-261: summary.md is written; with summary unbound (a run without
\* --summary) line 256 raises UnboundLocalError, which line 259 catches
WriteSummary ==
    /\ pc = "write"
    /\ op' = "write" /\ prior' = file
    /\ out' = IF summary = None THEN out ELSE Some(WriteText(summary[1]))
    /\ outcome' = "ok"
    /\ pc' = "done"
    /\ UNCHANGED <<file, ret, args, emails, old_data, new_emails, combined,
                   filtered, bullet_lines, digest, summary, added, lastBatch,
                   repeat, resp, hist, invoked>>
    /\ UNCHANGED filterVars

Init ==
    /\ InitCommon
    /\ pc = "start"
    /\ file = Missing
    /\ prior = file

Next ==
    \/ \E a \in MainArgs : StartRun(a)
    \/ FetchFail
    \/ FetchOk
    \/ MainSave
    \/ SaveDump
    \/ SaveClose
    \/ SaveCrash
    \/ LoadAndFilter
    \/ Summarize
    \/ Gemini
    \/ WriteSummary

Spec == Init /\ [][Next]_vars

----------------------------------------------------------------------------
(* runs of main() over a store that earlier fetches have filled *)

LongRec(i) == Rec(i, <<TimeLex(i % 24)>>, <<98>>, <<48 + (i % 10)>>)
LongStore(n) == [i \in 1..n |-> LongRec(i)]

DigestArgs ==
    [fetch : {FALSE}, summary : BOOLEAN,
     since : {None, Some(<<TimeLex(23)>>)},
     from_contains : {None},
     subject_contains : {None}]

InitDigest ==
    /\ InitCommon
    /\ pc = "start"
    /\ file \in {Stored(LongStore(n)) : n \in 0..(MaxDigestRecords + MaxExtra)}
    /\ prior = file

NextDigest ==
    \/ \E a \in DigestArgs : StartRun(a)
    \/ LoadAndFilter
    \/ Summarize
    \/ Gemini
    \/ WriteSummary

SpecDigest == InitDigest /\ [][NextDigest]_vars

----------------------------------------------------------------------------
(* calls of filter_emails on arbitrary lists *)

\* records as json.load may yield them: any key may be absent, a date may be
\* empty, no date at all, without a zone, or with one
FilterPool ==
    {Rec(1, <<TimeLex(5)>>, <<98, 111, 98>>, <<72, 105>>),
     Rec(2, <<TimeLex(6), ZoneLex(1)>>, <<66, 79, 66>>, <<120>>),
     Rec(3, <<TimeLex(5), ZoneLex(1)>>, <<98, 111, 98>>, <<120>>),
     Rec(4, <<TimeLex(4), ZoneLex(-2)>>, <<65, 98>>, <<72, 105>>),
     Rec(5, <<120>>, <<98, 111, 98>>, <<72, 105>>),
     Rec(6, <<>>, <<65, 98>>, <<120>>),
     [id |-> 7, from |-> <<66, 79, 66>>, subject |-> <<72, 105>>],
     [id |-> 8, date |-> <<TimeLex(7)>>]}

SinceValues ==
    {None, Some(<<>>), Some(<<120>>), Some(<<TimeLex(5)>>),
     Some(<<TimeLex(7), ZoneLex(1)>>)}
FromValues == {None, Some(<<>>), Some(<<66, 79, 66>>), Some(<<98>>)}
SubjectValues == {None, Some(<<88>>)}

InitFilter ==
    /\ InitCommon
    /\ pc = "idle"
    /\ file = Missing
    /\ prior = file

\* a caller picks a list and the criteria
ChooseInputs ==
    /\ pc = "idle"
    /\ \E recs \in Batches(FilterPool, MaxRecs), s \in SinceValues,
          f \in FromValues, c \in SubjectValues :
          /\ fRecs' = recs /\ fSince' = s /\ fFrom' = f /\ fSubj' = c
    /\ pc' = "filter"
    /\ UNCHANGED <<fOut, fSF, fFS>>
    /\ UNCHANGED <<file, out, ret, args, emails, old_data, new_emails, combined,
                   filtered, bullet_lines, digest, summary, added, outcome, prior, op,
                   lastBatch, repeat, resp, hist, invoked>>

\* filter_emails(recs, since, from_contains, subject_contains)
ApplyFilter ==
    /\ pc = "filter"
    /\ fOut = None
    /\ fOut' = Some(FilterEmails(fRecs, fSince, fFrom, fSubj))
    /\ UNCHANGED <<fRecs, fSince, fFrom, fSubj, fSF, fFS>>
    /\ UNCHANGED <<file, out, pc, ret, args, emails, old_data, new_emails, combined,
                   filtered, bullet_lines, digest, summary, added, outcome, prior, op,
                   lastBatch, repeat, resp, hist, invoked>>

\* filter_emails(filter_emails(recs, since=S), from_contains=F)
ApplySinceThenFrom ==
    /\ pc = "filter"
    /\ fSF = None
    /\ fSF' = Some(FilterEmails(FilterEmails(fRecs, fSince, None, None),
                                None, fFrom, None))
    /\ UNCHANGED <<fRecs, fSince, fFrom, fSubj, fOut, fFS>>
    /\ UNCHANGED <<file, out, pc, ret, args, emails, old_data, new_emails, combined,
                   filtered, bullet_lines, digest, summary, added, outcome, prior, op,
                   lastBatch, repeat, resp, hist, invoked>>

\* filter_emails(filter_emails(recs, from_contains=F), since=S)
ApplyFromThenSince ==
    /\ pc = "filter"
    /\ fFS = None
    /\ fFS' = Some(FilterEmails(FilterEmails(fRecs, None, fFrom, None),
                                fSince, None, None))
    /\ UNCHANGED <<fRecs, fSince, fFrom, fSubj, fOut, fSF>>
    /\ UNCHANGED <<file, out, pc, ret, args, emails, old_data, new_emails, combined,
                   filtered, bullet_lines, digest, summary, added, outcome, prior, op,
                   lastBatch, repeat, resp, hist, invoked>>

NextFilter == ChooseInputs \/ ApplyFilter \/ ApplySinceThenFrom \/ ApplyFromThenSince

SpecFilter == InitFilter /\ [][NextFilter]_vars

----------------------------------------------------------------------------
(* Claims about direct calls of save_emails_to_json *)

IdSeq(recs) == [i \in 1..Len(recs) |-> recs[i].id]

\* the records of b whose id does not occur in a, in b's order
NotIn(b, a) == SelectSeq(b, LAMBDA e : \A i \in 1..Len(a) : a[i].id /= e.id)

\* both calls ran to their end
PairDone == pc = "idle" /\ Len(hist) = 2 /\ ~Unparsable(file)

\* C1: after any sequence of save calls from a missing or empty store, with
\* arbitrary batches, no two records of the persisted collection share an id.
C1_UniqueIds ==
    file.ok => Cardinality(Ids(file.data)) = Len(file.data)

\* C3: from an empty or missing store, save(A) then save(B) leaves the
\* collection A followed by the records of B whose id is not in A, in order;
\* the first call reports Len(A) added and the second the number kept of B.
C3_DedupCorrectness ==
    /\ (pc = "idle" /\ Len(hist) = 1 /\ ~Unparsable(file)) =>
          /\ Collection(file) = hist[1]
          /\ added = Len(hist[1])
    /\ PairDone =>
          /\ Collection(file) = hist[1] \o NotIn(hist[2], hist[1])
          /\ added = Len(NotIn(hist[2], hist[1]))

\* ids [1,2,3] then [2,3,4]: the store holds [1,2,3,4] and 1 record was added
C3_Witness ==
    /\ PairDone
    /\ IdSeq(hist[1]) = <<1, 2, 3>>
    /\ IdSeq(hist[2]) = <<2, 3, 4>>
    /\ IdSeq(Collection(file)) = <<1, 2, 3, 4>>
    /\ added = 1

----------------------------------------------------------------------------
(* Claims about runs of main() *)

\* C2: if the write of save_emails_to_json is interrupted, the artifact is
\* either the complete combined collection or exactly what it was before.
C2_AtomicSave ==
    (op = "save" /\ outcome = "crash") =>
        (file = prior \/ file = Stored(combined))

\* C4: an operation that reads an unparsable artifact ends in an error and
\* leaves the artifact as it was; no operation changes an unparsable
\* artifact; a missing artifact is read as the empty list without error.
C4_UnparsableIsHardError ==
    /\ (prior.exists /\ ~prior.ok) => file = prior
    /\ (prior.exists /\ ~prior.ok /\ (op = "load" \/ (op = "save" /\ emails /= <<>>))) =>
          (outcome = "error" /\ pc = "aborted")
    /\ (op = "load" /\ ~prior.exists) =>
          (outcome = "ok" /\ pc /= "aborted" /\ filtered = <<>>)

\* a save call with a batch met an unparsable artifact, raised and left it alone
C4_Witness ==
    /\ op = "save" /\ emails /= <<>>
    /\ prior.exists /\ ~prior.ok
    /\ outcome = "error" /\ file = prior

\* C6: a save call that gets the batch of the save call before it appends
\* nothing and never writes: the artifact stays what that call found.
C6_Idempotent ==
    (op = "save" /\ repeat) =>
        (file = prior /\ added = 0 /\ pc /= "dump")

\* the same non-empty batch was saved twice over a store that holds it
C6_Witness ==
    /\ op = "save" /\ repeat /\ outcome = "ok"
    /\ emails /= <<>>
    /\ file.ok /\ Ids(emails) \subseteq Ids(file.data)

\* C7: whenever an operation has completed (it was not interrupted), the
\* collection it found is a prefix of the collection it leaves.
C7_AppendOnly ==
    (pc /= "dump" /\ outcome /= "crash") =>
        IF prior.exists /\ ~prior.ok
        THEN file = prior
        ELSE /\ prior.exists => file.exists
             /\ file.exists => file.ok
             /\ IsPrefix(Collection(prior), Collection(file))

\* a save call appended records to a store that already held some
C7_Witness ==
    /\ op = "save" /\ outcome = "ok" /\ pc /= "dump"
    /\ Len(Collection(prior)) > 0
    /\ Len(Collection(file)) > Len(Collection(prior))

\* the summarizer raised, answered nothing, or answered a blank text
Failed(r) == r.kind \in {"raise", "none"} \/ Strip(r.text) = <<>>

Placeholder(r) == IF r.kind = "raise" THEN FailPrefix \o r.text ELSE NoSummaryText

\* C9: after a failure of the summarizer the run goes on to write summary.md
\* and ends normally, summary.md holds the failure message or "No summary
\* generated.", and emails.json is what it was before the failure.
C9_SummarizerFailureDegrades ==
    (resp /= None /\ Failed(resp[1])) =>
        /\ pc \in {"write", "done"}
        /\ outcome /= "error"
        /\ file = prior
        /\ pc = "done" => out = Some(Placeholder(resp[1]))

\* the summarizer raised over a non-empty store and the run ended with the
\* failure message in summary.md
C9_Witness ==
    /\ pc = "done"
    /\ resp /= None /\ resp[1].kind = "raise"
    /\ out = Some(FailPrefix \o resp[1].text)
    /\ Len(Collection(file)) > 0

----------------------------------------------------------------------------
(* Claims about the digest *)

\* C10: with no record selected the sentinel is returned and the summarizer
\* is not invoked in that run; when it is invoked, the digest was built from
\* at least one and at most the first 50 selected records, in their order.
C10_DigestBeforeSummarizer ==
    /\ (args.summary /\ op \in {"summarize", "write"} /\ filtered = <<>>) =>
          (~invoked /\ pc /= "gemini" /\ summary = Some(NoMatchText))
    /\ (invoked \/ pc = "gemini") =>
          /\ Len(filtered) >= 1
          /\ Len(bullet_lines) >= 1
          /\ Len(bullet_lines) <= MaxDigestRecords
          /\ Len(bullet_lines) <= Len(filtered)
          /\ \A i \in 1..Len(bullet_lines) : bullet_lines[i] = Line(filtered[i])
          /\ digest = Take(Join(bullet_lines), MaxDigestChars)

\* more than 50 records were selected and the summarizer is about to be called
C10_Witness ==
    /\ pc = "gemini"
    /\ Len(filtered) > MaxDigestRecords
    /\ Len(bullet_lines) = MaxDigestRecords

----------------------------------------------------------------------------
(* Claims about filter_emails *)

\* a is b with some elements left out
IsSubseq(a, b) ==
    \E f \in [1..Len(a) -> 1..Len(b)] :
        /\ \A i \in 1..Len(a) : b[f[i]] = a[i]
        /\ \A i, j \in 1..Len(a) : i < j => f[i] < f[j]

DateParses(e) == ParseDate(Get(e, "date", <<>>)) /= None

\* C5: called with a since argument, filter_emails returns no record whose
\* date does not parse, and returns no record when since itself does not parse.
C5_FailClosed ==
    (fOut /= None /\ Truthy(fSince)) =>
        /\ \A i \in 1..Len(fOut[1]) : DateParses(fOut[1][i])
        /\ ParseDate(fSince[1]) = None => fOut[1] = <<>>

\* C8: filtering by since and sender at once equals filtering by since and
\* then by sender, and by sender and then by since; the result is the input
\* with some records left out.
C8_FilterConjunction ==
    /\ fOut /= None => IsSubseq(fOut[1], fRecs)
    /\ (fOut /= None /\ fSF /= None /\ fFS /= None /\ fSubj = None) =>
          (fOut = fSF /\ fOut = fFS)

\* both criteria are given, each drops a record and one record passes both
C8_Witness ==
    /\ fOut /= None /\ fSF /= None /\ fFS /= None /\ fSubj = None
    /\ Truthy(fSince) /\ ParseDate(fSince[1]) /= None /\ Truthy(fFrom)
    /\ Len(fOut[1]) = 1
    /\ Len(FilterEmails(fRecs, fSince, None, None)) = 2
    /\ Len(FilterEmails(fRecs, None, fFrom, None)) = 2

====
